---- MODULE Spec2Model ----
(***************************************************************************)
(* Checkout resource lifecycle of the UCP merchant server: the shared      *)
(* checkout store, the tool-call (MCP) binding, the embedded checkout HTTP *)
(* routes and the host agent's completion API.                             *)
(*                                                                         *)
(* The adapters are translated from                                        *)
(*   backend/mcp_server/streamable_http_server.py                          *)
(*   backend/embedded_checkout_routes.py                                   *)
(*   backend/host_agent/__main__.py                                        *)
(* backend/store.py (RetailStore) is not part of the source tree; the      *)
(* store_* operators follow the Checkout Store contract of the design      *)
(* document (section 4.1) at the granularity of the calls the adapters     *)
(* make.                                                                   *)
(***************************************************************************)
EXTENDS Integers, Sequences, FiniteSets, TLC

\* ------------------------------------------------------------------ bounds
\* Units of each product in stock; also the largest quantity of a request.
MaxQty == 2
\* Embedded requests that may be suspended at `await request.json()` at once.
MaxInFlight == 2
\* Comma-separated fields of an ec_delegate query parameter.
MaxDelegate == 2
\* Messages a session's history holds before the session is left alone.
MaxHistory == 2
\* The messages one page may post to its host, the requests it may have
\* given an id, and the fetches it may have under way.
MaxSent == 3
MaxRequests == 2
MaxFetches == 1
\* The values the random number of one ECDSA signature is drawn from.
MaxNonce == 2

\* The ids the store hands out (uuid4): one checkout is followed through its
\* life; UnknownId is an id no checkout ever has.
CheckoutIds == {1}
UnknownId == 2
\* id = 0 stands for an empty id string ("not id").
NoId == 0
Keys == {"k1", "k2"}
\* "" is a missing / empty idempotency key ("not idempotency_key").
NoKey == ""
Products == {"a", "b"}
\* "x" is an id the catalog does not know, "" a line item without item.id.
ItemIds == Products \cup {"x", ""}

Terminal == {"completed", "canceled"}

\* Catalog prices and the flat delivery charge, in whole currency units.
Price == [p \in Products |-> IF p = "a" THEN 1 ELSE 2]
ShippingFee == 1

\* ------------------------------------------------------------ checkout store
\* A checkout: buyer is "none" (absent), "nocontact" (a Buyer without email)
\* or "contact"; fulfillment is "none" or "addr" (a destination resolved);
\* payment is "none" or "inst" (an instrument selected); items maps a product
\* to its quantity (0: not in the checkout); order is 0 (absent) or the
\* number of the order record; totals is the stored total.
NewCheckout(pay) ==
    [status |-> "incomplete", order |-> 0, buyer |-> "none",
     fulfillment |-> "none", payment |-> pay,
     items |-> [p \in Products |-> 0], totals |-> 0]

\* The total of a checkout: the line items at catalog price plus the
\* delivery charge once a destination is set (no handler under src/ applies
\* a discount, so the applied discounts are always empty).
RECURSIVE SumOver(_, _)
SumOver(f, D) ==
    IF D = {} THEN 0
    ELSE LET d == CHOOSE x \in D : TRUE IN f[d] + SumOver(f, D \ {d})
Totals(c) ==
    SumOver([p \in Products |-> c.items[p] * Price[p]], Products)
      + (IF c.fulfillment = "addr" THEN ShippingFee ELSE 0)

\* validate_ready: buyer contact present, a fulfillment destination resolved,
\* a payment instrument selected.
IsReady(c) ==
    c.buyer = "contact" /\ c.fulfillment = "addr" /\ c.payment = "inst"

\* Totals recomputation and status re-derivation after a mutation; terminal
\* statuses are final.
Rederive(c) ==
    IF c.status \in Terminal THEN c
    ELSE [c EXCEPT !.status = IF IsReady(c) THEN "ready_for_complete"
                               ELSE "incomplete",
                   !.totals = Totals(c)]

\* A store call's outcome: the store after it, the ValueError it raised
\* ("" when none) and what it returned.
Ret(S, err, ret) == [S |-> S, err |-> err, ret |-> ret]

Put(S, id, c) ==
    [S EXCEPT !.checkouts = [i \in DOMAIN S.checkouts \cup {id} |->
                               IF i = id THEN c ELSE S.checkouts[i]]]

store_has(S, id) == id \in DOMAIN S.checkouts

\* RetailStore.add_to_checkout(metadata, product_id, quantity, checkout_id):
\* checkout_id = NoId creates the checkout (pay: whether the store's payment
\* configuration preselects an instrument).
store_add_to_checkout(S, item, qty, id, newId, pay) ==
    IF item \notin Products THEN Ret(S, "InvalidRequest", NoId)
    ELSE IF id /= NoId /\ ~store_has(S, id) THEN Ret(S, "NotFound", NoId)
    ELSE IF id /= NoId /\ S.checkouts[id].status \in Terminal
         THEN Ret(S, "InvalidMutation", NoId)
    ELSE LET cid == IF id = NoId THEN newId ELSE id
             c == IF id = NoId THEN NewCheckout(pay) ELSE S.checkouts[id]
             q == c.items[item] + qty
         IN IF q > MaxQty THEN Ret(S, "MerchandiseUnavailable", NoId)
            ELSE Ret(Put(S, cid, Rederive([c EXCEPT !.items[item] = q])),
                     "", cid)

\* RetailStore.update_checkout(checkout_id, product_id, quantity)
store_update_checkout(S, id, item, qty) ==
    IF ~store_has(S, id) THEN Ret(S, "NotFound", NoId)
    ELSE IF S.checkouts[id].status \in Terminal
         THEN Ret(S, "InvalidMutation", NoId)
    ELSE IF item \notin Products THEN Ret(S, "InvalidRequest", NoId)
    ELSE IF qty > MaxQty THEN Ret(S, "MerchandiseUnavailable", NoId)
    ELSE Ret(Put(S, id, Rederive([S.checkouts[id] EXCEPT !.items[item] = qty])),
             "", id)

\* RetailStore.add_delivery_address(checkout_id, address)
store_add_delivery_address(S, id) ==
    IF ~store_has(S, id) THEN Ret(S, "NotFound", NoId)
    ELSE IF S.checkouts[id].status \in Terminal
         THEN Ret(S, "InvalidMutation", NoId)
    ELSE Ret(Put(S, id, Rederive([S.checkouts[id] EXCEPT !.fulfillment = "addr"])),
             "", id)

\* RetailStore.start_payment(checkout_id): returns the checkout when it is
\* ready (ret = "checkout") and the reason, a str, when it is not
\* (ret = "str"); records the computed status.
store_start_payment(S, id) ==
    IF ~store_has(S, id) THEN Ret(S, "NotFound", "none")
    ELSE LET c == Rederive(S.checkouts[id])
         IN Ret(Put(S, id, c), "", IF IsReady(c) THEN "checkout" ELSE "str")

\* RetailStore.place_order(checkout_id)
store_place_order(S, id) ==
    IF ~store_has(S, id) THEN Ret(S, "NotFound", NoId)
    ELSE IF S.checkouts[id].status = "completed"
         THEN Ret(S, "AlreadyCompleted", NoId)
    ELSE IF S.checkouts[id].status = "canceled"
         THEN Ret(S, "AlreadyCanceled", NoId)
    ELSE IF ~IsReady(S.checkouts[id]) THEN Ret(S, "NotReady", NoId)
    ELSE LET n == S.orders + 1
         IN Ret([Put(S, id, [S.checkouts[id] EXCEPT !.status = "completed",
                                                    !.order = n])
                   EXCEPT !.orders = n],
                "", id)

\* RetailStore.cancel_checkout(checkout_id)
store_cancel_checkout(S, id) ==
    IF ~store_has(S, id) THEN Ret(S, "NotFound", NoId)
    ELSE IF S.checkouts[id].status \in Terminal
         THEN Ret(S, "InvalidMutation", NoId)
    ELSE Ret(Put(S, id, [S.checkouts[id] EXCEPT !.status = "canceled"]), "", id)

\* A direct write of the adapter into the live checkout object that
\* store.get_checkout returned.
SetBuyer(S, id, b) == Put(S, id, [S.checkouts[id] EXCEPT !.buyer = b])
SetPayment(S, id, p) == Put(S, id, [S.checkouts[id] EXCEPT !.payment = p])
SetStatus(S, id, s) == Put(S, id, [S.checkouts[id] EXCEPT !.status = s])

\* ------------------------------------------------------------------ responses
\* The checkout carried by an error response: none.
NoBody ==
    [status |-> "", order |-> 0, buyer |-> "none", fulfillment |-> "none",
     payment |-> "none", items |-> [p \in Products |-> 0], totals |-> 0]

\* A handler's outcome: the store after the call and the response returned.
Out(S, resp) == [S |-> S, resp |-> resp]

\* _create_error_response(code, message, severity); detail is the message
\* where it is str(e) of a store error.
ErrorResponse(code, sev, detail) ==
    [ok |-> FALSE, code |-> code, sev |-> sev, detail |-> detail,
     checkout |-> NoBody]

\* _create_success_response(checkout): checkout.model_dump of the live object.
SuccessResponse(S, id) ==
    [ok |-> TRUE, code |-> "success", sev |-> "", detail |-> "",
     checkout |-> S.checkouts[id]]

\* raise HTTPException(status_code, detail) / JSONResponse({"error": ...},
\* status_code): an HTTP error has a status code and a text, no severity.
HttpError(status, detail) ==
    [ok |-> FALSE, code |-> status, sev |-> "", detail |-> detail,
     checkout |-> NoBody]

\* JSONResponse({"status": "success", "checkout": checkout.model_dump(...)})
HttpSuccess(S, id) ==
    [ok |-> TRUE, code |-> "HTTP_200", sev |-> "", detail |-> "",
     checkout |-> S.checkouts[id]]

NoResp == ErrorResponse("", "", "")

\* ------------------------------------------------- tool-call (MCP) binding
\* A line item of a request: [item |-> item.id or "", qty |-> quantity].
LineItem(i, q) == [item |-> i, qty |-> q]

\* create_checkout: "for line_item in line_items[1:]" with "if item_id:".
RECURSIVE AddRemaining(_, _, _)
AddRemaining(S, id, lis) ==
    IF lis = <<>> THEN Ret(S, "", id)
    ELSE IF Head(lis).item = "" THEN AddRemaining(S, id, Tail(lis))
    ELSE LET r == store_add_to_checkout(S, Head(lis).item, Head(lis).qty,
                                        id, id, "none")
         IN IF r.err /= "" THEN r ELSE AddRemaining(r.S, id, Tail(lis))

\* create_checkout(line_items, buyer, fulfillment); newId is the uuid4 the
\* store draws, pay whether the store preselects a payment instrument.
create_checkout(S, line_items, buyer, fulfillment, newId, pay) ==
    IF line_items = <<>>
    THEN Out(S, ErrorResponse("INVALID_REQUEST", "recoverable", ""))
    ELSE IF Head(line_items).item = ""
    THEN Out(S, ErrorResponse("INVALID_LINE_ITEM", "recoverable", ""))
    ELSE
      LET r1 == store_add_to_checkout(S, Head(line_items).item,
                                      Head(line_items).qty, NoId, newId, pay)
      IN IF r1.err /= ""
         THEN Out(r1.S, ErrorResponse("MERCHANDISE_NOT_AVAILABLE",
                                      "requires_buyer_input", r1.err))
         ELSE
           LET r2 == AddRemaining(r1.S, newId, Tail(line_items))
           IN IF r2.err /= ""
              THEN Out(r2.S, ErrorResponse("MERCHANDISE_NOT_AVAILABLE",
                                           "requires_buyer_input", r2.err))
              ELSE
                LET S3 == IF buyer /= "none" THEN SetBuyer(r2.S, newId, buyer)
                          ELSE r2.S
                    r4 == IF fulfillment = "addr"
                          THEN store_add_delivery_address(S3, newId)
                          ELSE Ret(S3, "", newId)
                IN IF r4.err /= ""
                   THEN Out(r4.S, ErrorResponse("MERCHANDISE_NOT_AVAILABLE",
                                                "requires_buyer_input", r4.err))
                   ELSE Out(r4.S, SuccessResponse(r4.S, newId))

\* get_checkout(id)
get_checkout(S, id) ==
    IF id = NoId
    THEN Out(S, ErrorResponse("INVALID_REQUEST", "recoverable", ""))
    ELSE IF ~store_has(S, id)
    THEN Out(S, ErrorResponse("CHECKOUT_NOT_FOUND", "recoverable", ""))
    ELSE Out(S, SuccessResponse(S, id))

\* update_checkout: the line-item loop; an item of the checkout gets its
\* quantity set, another one is added.
RECURSIVE UpdateLineItems(_, _, _)
UpdateLineItems(S, id, lis) ==
    IF lis = <<>> THEN Ret(S, "", id)
    ELSE IF Head(lis).item = "" THEN UpdateLineItems(S, id, Tail(lis))
    ELSE LET it == Head(lis).item
             found == it \in Products /\ S.checkouts[id].items[it] > 0
             r == IF found
                  THEN store_update_checkout(S, id, it, Head(lis).qty)
                  ELSE store_add_to_checkout(S, it, Head(lis).qty, id, id, "none")
         IN IF r.err /= "" THEN r ELSE UpdateLineItems(r.S, id, Tail(lis))

\* update_checkout answering with the checkout as dumped before the line
\* items and the address were applied (no refresh at line 464).
update_checkout_staleResponse(S, id, line_items, buyer, fulfillment) ==
    IF id = NoId
    THEN Out(S, ErrorResponse("INVALID_REQUEST", "recoverable", ""))
    ELSE IF ~store_has(S, id)
    THEN Out(S, ErrorResponse("CHECKOUT_NOT_FOUND", "recoverable", ""))
    ELSE
      LET S1 == IF buyer /= "none" THEN SetBuyer(S, id, buyer) ELSE S
          r2 == UpdateLineItems(S1, id, line_items)
      IN IF r2.err /= ""
         THEN Out(r2.S, ErrorResponse("UPDATE_FAILED", "recoverable", r2.err))
         ELSE
           LET r3 == IF fulfillment = "addr"
                     THEN store_add_delivery_address(r2.S, id)
                     ELSE Ret(r2.S, "", id)
           IN IF r3.err /= ""
              THEN Out(r3.S, ErrorResponse("UPDATE_FAILED", "recoverable", r3.err))
              ELSE Out(r3.S, SuccessResponse(S1, id))

\* update_checkout without the "checkout is None" test: an unknown id gets
\* a checkout made for it.
update_checkout_createsMissing(S, id, line_items, buyer, fulfillment) ==
    IF id = NoId
    THEN Out(S, ErrorResponse("INVALID_REQUEST", "recoverable", ""))
    ELSE
      LET S0 == IF store_has(S, id) THEN S ELSE Put(S, id, NewCheckout("none"))
          S1 == IF buyer /= "none" THEN SetBuyer(S0, id, buyer) ELSE S0
          r2 == UpdateLineItems(S1, id, line_items)
      IN IF r2.err /= ""
         THEN Out(r2.S, ErrorResponse("UPDATE_FAILED", "recoverable", r2.err))
         ELSE
           LET r3 == IF fulfillment = "addr"
                     THEN store_add_delivery_address(r2.S, id)
                     ELSE Ret(r2.S, "", id)
           IN IF r3.err /= ""
              THEN Out(r3.S, ErrorResponse("UPDATE_FAILED", "recoverable", r3.err))
              ELSE Out(r3.S, SuccessResponse(r3.S, id))

\* update_checkout(id, line_items, buyer, fulfillment); the payment and
\* currency arguments are not read by the body.
update_checkout(S, id, line_items, buyer, fulfillment) ==
    IF id = NoId
    THEN Out(S, ErrorResponse("INVALID_REQUEST", "recoverable", ""))
    ELSE IF ~store_has(S, id)
    THEN Out(S, ErrorResponse("CHECKOUT_NOT_FOUND", "recoverable", ""))
    ELSE
      LET S1 == IF buyer /= "none" THEN SetBuyer(S, id, buyer) ELSE S
          r2 == UpdateLineItems(S1, id, line_items)
      IN IF r2.err /= ""
         THEN Out(r2.S, ErrorResponse("UPDATE_FAILED", "recoverable", r2.err))
         ELSE
           LET r3 == IF fulfillment = "addr"
                     THEN store_add_delivery_address(r2.S, id)
                     ELSE Ret(r2.S, "", id)
           IN IF r3.err /= ""
              THEN Out(r3.S, ErrorResponse("UPDATE_FAILED", "recoverable", r3.err))
              ELSE Out(r3.S, SuccessResponse(r3.S, id))

\* complete_checkout(id, idempotency_key, payment); payment is "inst" when
\* it names a selected instrument and a non-empty instrument list.
complete_checkout(S, id, key, payment) ==
    IF id = NoId
    THEN Out(S, ErrorResponse("INVALID_REQUEST", "recoverable", ""))
    ELSE IF key = NoKey
    THEN Out(S, ErrorResponse("INVALID_REQUEST", "recoverable", ""))
    ELSE IF ~store_has(S, id)
    THEN Out(S, ErrorResponse("CHECKOUT_NOT_FOUND", "recoverable", ""))
    ELSE IF S.checkouts[id].status = "completed"
    THEN Out(S, ErrorResponse("CHECKOUT_ALREADY_COMPLETED", "recoverable", ""))
    ELSE IF S.checkouts[id].status = "canceled"
    THEN Out(S, ErrorResponse("CHECKOUT_CANCELED", "recoverable", ""))
    ELSE
      LET r1 == store_start_payment(S, id)
      IN IF r1.err /= ""
         THEN Out(r1.S, ErrorResponse("COMPLETE_FAILED", "recoverable", r1.err))
         ELSE IF r1.ret = "str"
         THEN Out(r1.S, ErrorResponse("CHECKOUT_INCOMPLETE",
                                      "requires_buyer_input", "NotReady"))
         ELSE
           LET S2 == IF payment = "inst" THEN SetPayment(r1.S, id, "inst")
                     ELSE r1.S
               r3 == store_place_order(S2, id)
           IN IF r3.err /= ""
              THEN Out(r3.S, ErrorResponse("COMPLETE_FAILED", "recoverable",
                                           r3.err))
              ELSE Out(r3.S, SuccessResponse(r3.S, id))

\* cancel_checkout with the adapter writing the status itself instead of
\* leaving the transition (and its refusal on a terminal checkout) to
\* store.cancel_checkout.
cancel_checkout_noGuard(S, id) ==
    IF id = NoId
    THEN Out(S, ErrorResponse("INVALID_REQUEST", "recoverable", ""))
    ELSE IF ~store_has(S, id)
    THEN Out(S, ErrorResponse("CHECKOUT_NOT_FOUND", "recoverable", ""))
    ELSE LET S1 == SetStatus(S, id, "canceled")
         IN Out(S1, SuccessResponse(S1, id))

\* cancel_checkout(id)
cancel_checkout(S, id) ==
    IF id = NoId
    THEN Out(S, ErrorResponse("INVALID_REQUEST", "recoverable", ""))
    ELSE IF ~store_has(S, id)
    THEN Out(S, ErrorResponse("CHECKOUT_NOT_FOUND", "recoverable", ""))
    ELSE LET r == store_cancel_checkout(S, id)
         IN IF r.err /= ""
            THEN Out(r.S, ErrorResponse("CANCEL_NOT_ALLOWED", "recoverable",
                                        r.err))
            ELSE Out(r.S, SuccessResponse(r.S, id))

\* ------------------------------------------------ embedded checkout routes
\* get_embedded_checkout rendering a checkout of its own (the page of a store
\* instance that the tool-call binding never wrote to).
get_embedded_checkout_ownStore(S, id, versionOk) ==
    IF ~store_has(S, id) THEN Out(S, HttpError("HTTP_404", "not found"))
    ELSE IF ~versionOk THEN Out(S, HttpError("HTTP_400", "ec_version"))
    ELSE Out(S, [HttpSuccess(S, id) EXCEPT !.checkout = NewCheckout("none")])

\* get_embedded_checkout(checkout_id, ec_version, ...): the page carries
\* checkout.model_dump(); versionOk is whether ec_version has two dashes.
get_embedded_checkout(S, id, versionOk) ==
    IF ~store_has(S, id) THEN Out(S, HttpError("HTTP_404", "not found"))
    ELSE IF ~versionOk THEN Out(S, HttpError("HTTP_400", "ec_version"))
    ELSE Out(S, HttpSuccess(S, id))

\* update_embedded_checkout with the adapter recording the outcome of the
\* re-validation itself: a checkout start_payment returns gets
\* status = "ready_for_complete".
update_embedded_checkout_setsReady(S, id, buyer) ==
    LET S1 == IF buyer /= "absent" THEN SetBuyer(S, id, buyer) ELSE S
        r == store_start_payment(S1, id)
        S2 == IF r.ret = "checkout" THEN SetStatus(r.S, id, "ready_for_complete")
              ELSE r.S
    IN Out(S2, HttpSuccess(S2, id))

\* update_embedded_checkout after "data = await request.json()"; buyer is
\* "absent" when the body has no "buyer" key.
update_embedded_checkout(S, id, buyer) ==
    LET S1 == IF buyer /= "absent" THEN SetBuyer(S, id, buyer) ELSE S
        r == store_start_payment(S1, id)
    IN Out(r.S, HttpSuccess(r.S, id))

\* complete_embedded_checkout with the order fabricated by the route once
\* start_payment passed, without store.place_order and its status check.
complete_embedded_checkout_unguarded(S, id, key) ==
    IF key = NoKey
    THEN Out(S, HttpError("HTTP_400", "idempotency_key is required"))
    ELSE LET r1 == store_start_payment(S, id)
         IN IF r1.ret = "str"
            THEN Out(r1.S, HttpError("HTTP_400", "Checkout not ready"))
            ELSE LET n == r1.S.orders + 1
                     S2 == [Put(r1.S, id,
                                [r1.S.checkouts[id] EXCEPT !.status = "completed",
                                                           !.order = n])
                              EXCEPT !.orders = n]
                 IN Out(S2, HttpSuccess(S2, id))

\* complete_embedded_checkout after "data = await request.json()".
complete_embedded_checkout(S, id, key) ==
    IF key = NoKey
    THEN Out(S, HttpError("HTTP_400", "idempotency_key is required"))
    ELSE LET r1 == store_start_payment(S, id)
         IN IF r1.ret = "str"
            THEN Out(r1.S, HttpError("HTTP_400", "Checkout not ready"))
            ELSE LET r2 == store_place_order(r1.S, id)
                 IN IF r2.err /= ""
                    THEN Out(r2.S, HttpError("HTTP_400", r2.err))
                    ELSE Out(r2.S, HttpSuccess(r2.S, id))

\* --------------------------------------------------- host agent's EP API
\* complete_checkout_api keeping only its own status write (line 69): the
\* checkout is marked completed without store.place_order.
complete_checkout_api_statusOnly(S, id) ==
    IF ~store_has(S, id) THEN Out(S, HttpError("HTTP_400", "NotFound"))
    ELSE LET S2 == SetStatus(S, id, "completed")
         IN Out(S2, HttpSuccess(S2, id))

\* complete_checkout_api: no request body is read.
complete_checkout_api(S, id) ==
    LET r == store_place_order(S, id)
    IN IF r.err /= ""
       THEN Out(r.S, HttpError("HTTP_400", r.err))
       ELSE LET S2 == SetStatus(r.S, id, "completed")
            IN Out(S2, HttpSuccess(S2, id))

\* get_checkout_api
get_checkout_api(S, id) ==
    IF ~store_has(S, id) THEN Out(S, HttpError("HTTP_404", "Checkout not found"))
    ELSE Out(S, HttpSuccess(S, id))

\* -------------------------------------------- embedded checkout session
\* The delegations the embedded checkout implements.
EP_DELEGATE_PAYMENT_INSTRUMENTS == "payment.instruments_change"
EP_DELEGATE_PAYMENT_CREDENTIAL == "payment.credential"
EP_DELEGATE_FULFILLMENT_ADDRESS == "fulfillment.address_change"
SUPPORTED_DELEGATIONS ==
    {EP_DELEGATE_PAYMENT_INSTRUMENTS, EP_DELEGATE_PAYMENT_CREDENTIAL,
     EP_DELEGATE_FULFILLMENT_ADDRESS}

\* The comma-separated fields an ec_delegate query parameter may hold: two
\* supported delegations, one the server does not implement, an empty field.
DelegateFields ==
    {EP_DELEGATE_PAYMENT_CREDENTIAL, EP_DELEGATE_FULFILLMENT_ADDRESS,
     "unsupported.x", ""}

Range(q) == {q[i] : i \in DOMAIN q}

\* parse_ep_query_params: "[d.strip() for d in ec_delegate.split(',')
\* if d.strip()]" keeps the non-empty fields, in order, duplicates included.
RECURSIVE parse_ep_query_params(_)
parse_ep_query_params(fields) ==
    IF fields = <<>> THEN <<>>
    ELSE IF Head(fields) = "" THEN parse_ep_query_params(Tail(fields))
    ELSE <<Head(fields)>> \o parse_ep_query_params(Tail(fields))

\* EmbeddedCheckoutSession.__init__ via create_embedded_checkout_session.
create_embedded_checkout_session(fields) ==
    [requested_delegations |-> parse_ep_query_params(fields),
     accepted_delegations |-> <<>>,
     is_ready |-> FALSE, is_started |-> FALSE, is_completed |-> FALSE,
     message_history |-> <<>>]

\* A handler call's outcome: the session after it and what it returned
\* ("message": a JSON string, "None", "ValueError", a bool, "result").
SOut(s, out) == [s |-> s, out |-> out]

\* EmbeddedCheckoutSession.accept_delegation
accept_delegation(s, delegation) ==
    IF delegation \in Range(s.requested_delegations)
         /\ delegation \in SUPPORTED_DELEGATIONS
    THEN SOut(IF delegation \notin Range(s.accepted_delegations)
              THEN [s EXCEPT !.accepted_delegations = Append(@, delegation)]
              ELSE s,
              "True")
    ELSE SOut(s, "False")

\* EmbeddedCheckoutSession.accept_all_supported_delegations
RECURSIVE AcceptEach(_, _)
AcceptEach(s, ds) ==
    IF ds = <<>> THEN s
    ELSE AcceptEach(accept_delegation(s, Head(ds)).s, Tail(ds))
accept_all_supported_delegations(s) == AcceptEach(s, s.requested_delegations)

\* EmbeddedCheckoutSession.is_delegation_active
is_delegation_active(s, delegation) ==
    delegation \in Range(s.accepted_delegations)

\* EmbeddedCheckoutSession.log_message(direction, message); the message is
\* kept by its method ("" for a response, which has none).
log_message(s, direction, method) ==
    [s EXCEPT !.message_history =
                Append(@, [direction |-> direction, method |-> method])]

\* EmbeddedCheckoutHandler.parse_message(raw); raw is "garbage" (not JSON),
\* "array" (JSON that is no object: message.get fails), "notrpc" (an object
\* whose jsonrpc is not "2.0"), or a well-formed response.
parse_message(s, raw) ==
    IF raw = "garbage" THEN SOut(s, "ValueError")
    ELSE IF raw = "array" THEN SOut(s, "AttributeError")
    ELSE IF raw = "notrpc" THEN SOut(s, "ValueError")
    ELSE SOut(log_message(s, "received", ""), "message")

\* handle_ready_response recording the outcome of the response it is given:
\* an error response makes the session not ready.
handle_ready_response_followsResponse(s, response) ==
    SOut([s EXCEPT !.is_ready = (response = "result")], "result")

\* EmbeddedCheckoutHandler.handle_ready_response(response); response is
\* "result" (a success response) or "error" (an error response).
handle_ready_response(s, response) ==
    SOut([s EXCEPT !.is_ready = TRUE], "result")

\* EmbeddedCheckoutHandler.create_ready_request
create_ready_request(s) ==
    SOut(log_message(accept_all_supported_delegations(s), "sent", "ec.ready"),
         "message")

\* create_start_notification starting the session over: the delegations
\* accepted so far are dropped with the second ec.start.
create_start_notification_startsOver(s) ==
    SOut(log_message([s EXCEPT !.is_started = TRUE,
                               !.accepted_delegations =
                                   IF s.is_started THEN <<>> ELSE @],
                     "sent", "ec.start"),
         "message")

\* EmbeddedCheckoutHandler.create_start_notification
create_start_notification(s) ==
    SOut(log_message([s EXCEPT !.is_started = TRUE], "sent", "ec.start"),
         "message")

\* EmbeddedCheckoutHandler.create_complete_notification
create_complete_notification(s) ==
    SOut(log_message([s EXCEPT !.is_completed = TRUE], "sent", "ec.complete"),
         "message")

\* EmbeddedCheckoutHandler.create_state_change_notification(change_type)
ChangeTypes == {"line_items", "buyer", "payment", "fulfillment", "messages"}
create_state_change_notification(s, change_type) ==
    IF change_type \notin ChangeTypes THEN SOut(s, "ValueError")
    ELSE SOut(log_message(s, "sent", "ec." \o change_type \o ".change"),
              "message")

\* create_payment_credential_request without the is_delegation_active test.
create_payment_credential_request_noGuard(s) ==
    SOut(log_message(s, "sent", "ec.payment.credential_request"), "message")

\* EmbeddedCheckoutHandler.create_payment_credential_request
create_payment_credential_request(s) ==
    IF ~is_delegation_active(s, EP_DELEGATE_PAYMENT_CREDENTIAL)
    THEN SOut(s, "None")
    ELSE SOut(log_message(s, "sent", "ec.payment.credential_request"),
              "message")

\* EmbeddedCheckoutHandler.create_address_change_request
create_address_change_request(s) ==
    IF ~is_delegation_active(s, EP_DELEGATE_FULFILLMENT_ADDRESS)
    THEN SOut(s, "None")
    ELSE SOut(log_message(s, "sent", "ec.fulfillment.address_change_request"),
              "message")

\* --------------------------------------- embedded checkout page (script)
\* get_embedded_checkout handing the page every non-empty field of
\* ec_delegate (the list before the filter of line 908).
page_delegations_unfiltered(fields) ==
    SelectSeq(fields, LAMBDA d : d /= "")

\* get_embedded_checkout: the delegation list handed to the page template,
\* "[d for d in delegations if d in SUPPORTED_DELEGATIONS]" over the
\* non-empty fields.
RECURSIVE page_delegations(_)
page_delegations(fields) ==
    IF fields = <<>> THEN <<>>
    ELSE IF Head(fields) /= "" /\ Head(fields) \in SUPPORTED_DELEGATIONS
    THEN <<Head(fields)>> \o page_delegations(Tail(fields))
    ELSE page_delegations(Tail(fields))

\* EPErrorCode: the code a timed-out request is rejected with, and another
\* code a host may answer a delegated request with.
USER_CANCELLED == -32001
DELEGATION_FAILED == -32002

\* generateId(): the n-th id the page draws (ids are taken to be distinct).
generateId(n) == "req_" \o ToString(n)
\* A message without an id (a notification).
NoMsgId == ""

\* The EmbeddedCheckout object: config.delegations, state.checkout,
\* state.isReady, state.isCompleted, state.messagePort (upgraded: a port is
\* set), state.pendingRequests (the ids awaited and the method of each);
\* ids counts the ids drawn, fetches the POSTs under way per route, sent
\* holds the messages given to sendToHost.
NewPage(delegations, checkout) ==
    [open |-> TRUE, delegations |-> delegations, checkout |-> checkout,
     isReady |-> FALSE, isCompleted |-> FALSE, upgraded |-> FALSE,
     pendingRequests |-> {}, ids |-> 0,
     fetches |-> [update |-> 0, complete |-> 0], sent |-> <<>>]

\* No page loaded.
ClosedPage == [NewPage(<<>>, NoBody) EXCEPT !.open = FALSE]

\* A call's outcome: the page after it and the line it logged last.
PageOut(p, out) == [p |-> p, out |-> out]

Pending(p, id) == {q \in p.pendingRequests : q.id = id}

\* sendToHost(message)
sendToHost(p, id, method) ==
    [p EXCEPT !.sent = Append(@, [id |-> id, method |-> method])]

\* sendReady()
sendReady(p) ==
    LET id == generateId(p.ids + 1)
    IN sendToHost([p EXCEPT !.ids = @ + 1,
                            !.pendingRequests =
                                @ \cup {[id |-> id, method |-> "ec.ready"]}],
                  id, "ec.ready")

\* sendStart()
sendStart(p) == sendToHost(p, NoMsgId, "ec.start")

\* sendComplete()
sendComplete(p) ==
    sendToHost([p EXCEPT !.isCompleted = TRUE], NoMsgId, "ec.complete")

\* sendStateChange(changeType)
sendStateChange(p, changeType) ==
    sendToHost(p, NoMsgId, "ec." \o changeType \o ".change")

\* render(): a completed checkout is drawn by renderCompleted, which ends
\* with sendComplete(); any other one gets the form and its two buttons.
render(p) ==
    IF p.checkout.status = "completed" THEN sendComplete(p) ELSE p

\* init(): setupCommunication(); render(); sendReady()
init(p) == sendReady(render(p))

\* handleReadyResponse(response); upgrade is result.upgrade?.port.
handleReadyResponse(p, upgrade) ==
    LET p1 == [p EXCEPT !.isReady = TRUE]
    IN IF upgrade THEN sendReady([p1 EXCEPT !.upgraded = TRUE])
       ELSE sendStart(p1)

\* requestPaymentCredential(): the request is made pending and posted.
requestPaymentCredential(p) ==
    IF EP_DELEGATE_PAYMENT_CREDENTIAL \notin Range(p.delegations)
    THEN p
    ELSE LET id == generateId(p.ids + 1)
         IN sendToHost([p EXCEPT !.ids = @ + 1,
                                 !.pendingRequests = @ \cup
                                    {[id |-> id,
                                      method |-> "ec.payment.credential_request"]}],
                       id, "ec.payment.credential_request")

\* completeCheckout() from the fetch on: the POST to /complete is under way.
postComplete(p) == [p EXCEPT !.fetches.complete = @ + 1]

\* completeCheckout() going on to the completion request whatever the
\* delegated request was rejected with.
completeCheckout_resume_anyCode(p, code) ==
    PageOut(postComplete(p), "")

\* completeCheckout() after "await this.requestPaymentCredential()": code is
\* 0 when the promise resolved, else the code it was rejected with.
completeCheckout_resume(p, code) ==
    IF code = USER_CANCELLED THEN PageOut(p, "User cancelled payment")
    ELSE PageOut(postComplete(p), "")

\* completeCheckout() up to its first await.
completeCheckout(p) ==
    IF EP_DELEGATE_PAYMENT_CREDENTIAL \in Range(p.delegations)
    THEN requestPaymentCredential(p)
    ELSE postComplete(p)

\* The setTimeout callback of requestPaymentCredential for request id.
credentialTimeout(p, id) ==
    IF Pending(p, id) /= {}
    THEN completeCheckout_resume(
             [p EXCEPT !.pendingRequests = @ \ Pending(p, id)],
             USER_CANCELLED)
    ELSE PageOut(p, "")

\* handleMessage(data): message.id, whether message.result is there (and
\* carries upgrade.port), and message.error.code (0: no error).
handleMessage(p, message) ==
    IF message.id /= NoMsgId /\ Pending(p, message.id) /= {}
    THEN LET q == CHOOSE x \in Pending(p, message.id) : TRUE
             p1 == [p EXCEPT !.pendingRequests = @ \ Pending(p, message.id)]
         IN IF q.method = "ec.ready"
            THEN IF message.error /= 0 THEN PageOut(p1, "ec.ready rejected")
                 ELSE PageOut(handleReadyResponse(p1, message.result = "upgrade"),
                              "")
            ELSE completeCheckout_resume(p1, message.error)
    ELSE IF message.result /= "none" /\ ~p.isReady
    THEN PageOut(handleReadyResponse(p, message.result = "upgrade"), "")
    ELSE PageOut(p, "")

\* updateBuyerInfo() / completeCheckout() after the fetch: a response that
\* is ok replaces state.checkout and the page is rendered again; the update
\* then announces the change.
fetchReturned(p, route, resp) ==
    LET p1 == [p EXCEPT !.fetches[route] = @ - 1]
    IN IF ~resp.ok THEN p1
       ELSE LET p2 == render([p1 EXCEPT !.checkout = resp.checkout])
            IN IF route = "update" THEN sendStateChange(p2, "buyer") ELSE p2

\* ------------------------------------------------------ discount extension
\* An Optional value is a sequence: <<>> is None, <<x>> is x.
\* SAMPLE_DISCOUNTS
SAMPLE_DISCOUNTS ==
    [c \in {"SAVE10", "SAVE20", "PERCENT10", "WELCOME", "EXPIRED"} |->
        CASE c = "SAVE10" -> [amount |-> 1000, priority |-> 1, expired |-> FALSE]
          [] c = "SAVE20" -> [amount |-> 2000, priority |-> 1, expired |-> FALSE]
          [] c = "PERCENT10" -> [amount |-> 0, priority |-> 1, expired |-> FALSE]
          [] c = "WELCOME" -> [amount |-> 500, priority |-> 2, expired |-> FALSE]
          [] c = "EXPIRED" -> [amount |-> 1000, priority |-> 1, expired |-> TRUE]]

\* The codes a buyer may submit, and str.upper() on them.
SubmittedCodes ==
    {"SAVE10", "save10", "Save20", "percent10", "WELCOME", "welcome",
     "EXPIRED", "expired", "SAVE30", "save", ""}
upper(code) ==
    CASE code = "save10" -> "SAVE10"
      [] code = "Save20" -> "SAVE20"
      [] code = "percent10" -> "PERCENT10"
      [] code = "welcome" -> "WELCOME"
      [] code = "expired" -> "EXPIRED"
      [] code = "save" -> "SAVE"
      [] OTHER -> code

\* DiscountErrorCode
DISCOUNT_CODE_EXPIRED == "discount_code_expired"
DISCOUNT_CODE_INVALID == "discount_code_invalid"

\* AppliedDiscount(code, title, amount, priority) and DiscountMessage(code,
\* path), whose path is the literal "$.discounts.codes[0]" at both places
\* that build one.
AppliedDiscount(code, amount, priority) ==
    [code |-> code, amount |-> amount, priority |-> priority]
DiscountMessage(code) ==
    [type |-> "warning", code |-> code, path |-> "$.discounts.codes[0]"]

\* apply_discount_code comparing the code as submitted (no code.upper()).
apply_discount_code_caseSensitive(code, available_discounts) ==
    IF code \notin DOMAIN available_discounts
    THEN [applied |-> <<>>, message |-> <<DiscountMessage(DISCOUNT_CODE_INVALID)>>]
    ELSE LET discount_info == available_discounts[code]
         IN IF discount_info.expired
            THEN [applied |-> <<>>,
                  message |-> <<DiscountMessage(DISCOUNT_CODE_EXPIRED)>>]
            ELSE [applied |-> <<AppliedDiscount(code, discount_info.amount,
                                                   discount_info.priority)>>,
                  message |-> <<>>]

\* apply_discount_code(code, available_discounts): the returned pair.
apply_discount_code(code, available_discounts) ==
    LET code_upper == upper(code)
    IN IF code_upper \notin DOMAIN available_discounts
       THEN [applied |-> <<>>,
             message |-> <<DiscountMessage(DISCOUNT_CODE_INVALID)>>]
       ELSE LET discount_info == available_discounts[code_upper]
            IN IF discount_info.expired
               THEN [applied |-> <<>>,
                     message |-> <<DiscountMessage(DISCOUNT_CODE_EXPIRED)>>]
               ELSE [applied |-> <<AppliedDiscount(code, discount_info.amount,
                                                      discount_info.priority)>>,
                     message |-> <<>>]

\* calculate_discount_amount(discount, subtotal, line_items)
calculate_discount_amount(discount, subtotal) ==
    IF discount.amount <= subtotal THEN discount.amount ELSE subtotal

\* -------------------------------------------------- buyer consent extension
\* BuyerConsent: four flags, each "unset" (None), "true" or "false".
ConsentKeys == {"analytics", "preferences", "marketing", "sale_of_data"}
BuyerConsent == [ConsentKeys -> {"unset", "true", "false"}]

\* merge_consent starting from get_consent_defaults() for what the existing
\* consent leaves unset.
merge_consent_fromDefaults(existing, update) ==
    IF existing = <<>> THEN update
    ELSE LET merged_data ==
                 [key \in ConsentKeys |->
                     IF existing[1][key] = "unset" THEN "false"
                     ELSE existing[1][key]]
         IN [key \in ConsentKeys |->
                IF update[key] /= "unset" THEN update[key] ELSE merged_data[key]]

\* merge_consent(existing, update); existing is Optional.
merge_consent(existing, update) ==
    IF existing = <<>> THEN update
    ELSE LET merged_data == existing[1]
         IN [key \in ConsentKeys |->
                IF update[key] /= "unset" THEN update[key] ELSE merged_data[key]]

\* ------------------------------------------------------------ AP2 mandates
\* A checkout dict: its (key, value) pairs in insertion order.
DictSet(d, key, value) ==
    IF key \in {d[i][1] : i \in DOMAIN d}
    THEN [i \in DOMAIN d |-> IF d[i][1] = key THEN <<key, value>> ELSE d[i]]
    ELSE Append(d, <<key, value>>)

\* The keys of a checkout dict in sorted order.
SortedKeys == <<"ap2", "id", "status">>

\* base64url_encode: an encoding that can be undone.
base64url_encode(data) == [b64 |-> data]

\* jcs_canonicalize: json.dumps(sort_keys=True), the pairs in key order.
jcs_canonicalize(obj) ==
    LET at(key) == CHOOSE i \in DOMAIN obj : obj[i][1] = key
        present == SelectSeq(SortedKeys, LAMBDA key : key \in {obj[i][1] : i \in DOMAIN obj})
    IN [n \in DOMAIN present |-> obj[at(present[n])]]

\* remove_ap2_field
remove_ap2_field(checkout) ==
    SelectSeq(checkout, LAMBDA pair : pair[1] /= "ap2")

\* MerchantAuthorizationSigner._mock_sign: SHA-256 of the signing input.
mock_sign(signing_input) == [sha256 |-> signing_input]

\* MerchantAuthorizationSigner._real_sign: private_key.sign(..., ec.ECDSA);
\* the signature depends on the random number k drawn for it.
real_sign(signing_input, k) == [ecdsa |-> signing_input, k |-> k]

\* MerchantAuthorizationSigner.sign_checkout; signer is [kid, use_mock].
sign_checkout(signer, checkout, k) ==
    LET payload == remove_ap2_field(checkout)
        canonical_bytes == jcs_canonicalize(payload)
        encoded_header == base64url_encode([alg |-> "ES256", kid |-> signer.kid])
        signing_input == <<encoded_header, base64url_encode(canonical_bytes)>>
        signature == IF signer.use_mock THEN mock_sign(signing_input)
                     ELSE real_sign(signing_input, k)
    IN [header |-> encoded_header, signature |-> base64url_encode(signature)]

\* MandateVerifier.verify_mandate(mandate, expected_checkout): a mandate is
\* known by the number of sections of its JWT part, by whether its header
\* decodes to JSON, and by the checkout it was issued for.
verify_mandate(mandate, expected_checkout) ==
    IF mandate.jwt_sections /= 3
    THEN [valid |-> FALSE, error |-> "Invalid JWT structure"]
    ELSE IF ~mandate.header_decodes
    THEN [valid |-> FALSE, error |-> "str(e)"]
    ELSE [valid |-> TRUE, error |-> ""]

\* Ap2Session.verify_complete_request(ap2_request, expected_checkout);
\* checkout_mandate is Optional.
verify_complete_request(ap2_request, expected_checkout) ==
    IF ap2_request.checkout_mandate = <<>>
    THEN [valid |-> FALSE, error |-> "ap2.checkout_mandate is required",
          code |-> "mandate_required"]
    ELSE LET v == verify_mandate(ap2_request.checkout_mandate[1],
                                 expected_checkout)
         IN IF ~v.valid
            THEN [valid |-> FALSE, error |-> v.error,
                  code |-> "mandate_invalid_signature"]
            ELSE [valid |-> TRUE, error |-> "", code |-> ""]

\* Ap2Session.add_merchant_authorization: checkout['ap2'] is set in place.
add_merchant_authorization(signer, checkout, k) ==
    DictSet(checkout, "ap2",
            [merchant_authorization |-> sign_checkout(signer, checkout, k)])

\* ---------------------------------------------------------------- the system
\* store: the RetailStore the three adapters share (checkouts: the dict of
\*   checkouts by id, orders: the number of order records placed).
\* inflight: the embedded requests suspended at "await request.json()",
\*   after the 404 check, by route and checkout id.
\* last: the call that returned last, with its response.
\* doneKey: (history) per checkout, the idempotency key of the request that
\*   completed it.
\* session: the EmbeddedCheckoutSession of one embedded page.
\* page: the EmbeddedCheckout object of the page's script.
\* ret: the handler call that returned last: its name, its argument and
\*   what it returned.
VARIABLES store, inflight, last, doneKey, session, ret, page

storeVars == <<store, inflight, last, doneKey>>
sessVars == <<session, ret>>
vars == <<store, inflight, last, doneKey, session, ret, page>>

Routes == {"update", "complete"}

\* The request arguments the environment may send.
CreateLineItems ==
    { <<>>,
      <<LineItem("", 1)>>,
      <<LineItem("a", 1)>>,
      <<LineItem("b", MaxQty)>>,
      <<LineItem("x", 1)>>,
      <<LineItem("a", 1), LineItem("b", 1)>>,
      <<LineItem("a", 1), LineItem("x", 1)>>,
      <<LineItem("a", 1), LineItem("a", MaxQty)>> }
UpdateLineItems_Args ==
    { <<>>,
      <<LineItem("a", 1)>>,
      <<LineItem("a", MaxQty)>>,
      <<LineItem("b", 1)>>,
      <<LineItem("x", 1)>>,
      <<LineItem("b", 1), LineItem("a", MaxQty + 1)>> }
BuyerArgs == {"none", "nocontact", "contact"}
FulfillmentArgs == {"none", "addr"}
PaymentArgs == {"none", "inst"}
RequestIds == {NoId, UnknownId} \cup CheckoutIds
RequestKeys == {NoKey} \cup Keys

Call(op, via, id, key, resp) ==
    [op |-> op, via |-> via, id |-> id, key |-> key, resp |-> resp]

InFlightTotal ==
    LET RECURSIVE Sum(_)
        Sum(D) == IF D = {} THEN 0
                  ELSE LET d == CHOOSE x \in D : TRUE
                       IN inflight[d] + Sum(D \ {d})
    IN Sum(DOMAIN inflight)

HandlerCall(op, arg, out) == [op |-> op, arg |-> arg, out |-> out]

StoreInit ==
    /\ store = [checkouts |-> [i \in {} |-> NoBody], orders |-> 0]
    /\ inflight = [d \in Routes \X CheckoutIds |-> 0]
    /\ last = Call("init", "", NoId, NoKey, NoResp)
    /\ doneKey = [i \in CheckoutIds |-> NoKey]

Init ==
    /\ StoreInit
    /\ session = create_embedded_checkout_session(<<>>)
    /\ ret = HandlerCall("init", "", "")
    /\ page = ClosedPage

\* The key of the request that placed an order in this step, if one did.
RecordKey(S2, id, key) ==
    doneKey' = IF S2.orders > store.orders /\ id \in CheckoutIds
               THEN [doneKey EXCEPT ![id] = key]
               ELSE doneKey

McpCreate ==
    /\ UNCHANGED <<sessVars, page>>
    /\ \E lis \in CreateLineItems, b \in BuyerArgs, f \in FulfillmentArgs,
       pay \in PaymentArgs :
        LET newId == Cardinality(DOMAIN store.checkouts) + 1
            r == create_checkout(store, lis, b, f, newId, pay)
        IN /\ newId \in CheckoutIds
           /\ store' = r.S
           /\ last' = Call("create", "mcp",
                           IF store_has(r.S, newId) THEN newId ELSE NoId,
                           NoKey, r.resp)
           /\ UNCHANGED <<inflight, doneKey>>

McpGet ==
    /\ UNCHANGED <<sessVars, page>>
    /\ \E id \in RequestIds :
        LET r == get_checkout(store, id)
        IN /\ store' = r.S
           /\ last' = Call("get", "mcp", id, NoKey, r.resp)
           /\ UNCHANGED <<inflight, doneKey>>

McpUpdate ==
    /\ UNCHANGED <<sessVars, page>>
    /\ \E id \in RequestIds :
      \E lis \in (IF store_has(store, id) THEN UpdateLineItems_Args ELSE {<<>>}),
         b \in (IF store_has(store, id) THEN BuyerArgs ELSE {"contact"}),
         f \in (IF store_has(store, id) THEN FulfillmentArgs ELSE {"none"}) :
        LET r == update_checkout(store, id, lis, b, f)
        IN /\ store' = r.S
           /\ last' = Call("update", "mcp", id, NoKey, r.resp)
           /\ UNCHANGED <<inflight, doneKey>>

McpComplete ==
    /\ UNCHANGED <<sessVars, page>>
    /\ \E id \in RequestIds, key \in RequestKeys, pay \in PaymentArgs :
        LET r == complete_checkout(store, id, key, pay)
        IN /\ store' = r.S
           /\ last' = Call("complete", "mcp", id, key, r.resp)
           /\ RecordKey(r.S, id, key)
           /\ UNCHANGED inflight

McpCancel ==
    /\ UNCHANGED <<sessVars, page>>
    /\ \E id \in RequestIds :
        LET r == cancel_checkout(store, id)
        IN /\ store' = r.S
           /\ last' = Call("cancel", "mcp", id, NoKey, r.resp)
           /\ UNCHANGED <<inflight, doneKey>>

\* update_embedded_checkout / complete_embedded_checkout up to the await:
\* store.get_checkout and the 404.
EmbeddedBegin ==
    /\ UNCHANGED <<sessVars, page>>
    /\ \E route \in Routes, id \in CheckoutIds \cup {UnknownId} :
        IF ~store_has(store, id)
        THEN /\ last' = Call(route, "embedded", id, NoKey,
                             HttpError("HTTP_404", "not found"))
             /\ UNCHANGED <<store, inflight, doneKey>>
        ELSE /\ InFlightTotal < MaxInFlight
             /\ inflight' = [inflight EXCEPT ![<<route, id>>] = @ + 1]
             /\ UNCHANGED <<store, last, doneKey>>

EmbeddedGet ==
    /\ UNCHANGED <<sessVars, page>>
    /\ \E id \in CheckoutIds \cup {UnknownId}, versionOk \in BOOLEAN :
        LET r == get_embedded_checkout(store, id, versionOk)
        IN /\ store' = r.S
           /\ last' = Call("get", "embedded", id, NoKey, r.resp)
           /\ UNCHANGED <<inflight, doneKey>>

EmbeddedUpdate ==
    /\ UNCHANGED <<sessVars, page>>
    /\ \E id \in CheckoutIds, b \in {"absent", "nocontact", "contact"} :
        /\ inflight[<<"update", id>>] > 0
        /\ LET r == update_embedded_checkout(store, id, b)
           IN /\ store' = r.S
              /\ last' = Call("update", "embedded", id, NoKey, r.resp)
        /\ inflight' = [inflight EXCEPT ![<<"update", id>>] = @ - 1]
        /\ UNCHANGED doneKey

EmbeddedComplete ==
    /\ UNCHANGED <<sessVars, page>>
    /\ \E id \in CheckoutIds, key \in RequestKeys :
        /\ inflight[<<"complete", id>>] > 0
        /\ LET r == complete_embedded_checkout(store, id, key)
           IN /\ store' = r.S
              /\ last' = Call("complete", "embedded", id, key, r.resp)
              /\ RecordKey(r.S, id, key)
        /\ inflight' = [inflight EXCEPT ![<<"complete", id>>] = @ - 1]

HostComplete ==
    /\ UNCHANGED <<sessVars, page>>
    /\ \E id \in CheckoutIds \cup {UnknownId} :
        LET r == complete_checkout_api(store, id)
        IN /\ store' = r.S
           /\ last' = Call("complete", "host", id, NoKey, r.resp)
           /\ RecordKey(r.S, id, NoKey)
           /\ UNCHANGED inflight

HostGet ==
    /\ UNCHANGED <<sessVars, page>>
    /\ \E id \in CheckoutIds \cup {UnknownId} :
        LET r == get_checkout_api(store, id)
        IN /\ store' = r.S
           /\ last' = Call("get", "host", id, NoKey, r.resp)
           /\ UNCHANGED <<inflight, doneKey>>

Next ==
    \/ McpCreate
    \/ McpGet
    \/ McpUpdate
    \/ McpComplete
    \/ McpCancel
    \/ EmbeddedBegin
    \/ EmbeddedGet
    \/ EmbeddedUpdate
    \/ EmbeddedComplete
    \/ HostComplete
    \/ HostGet

Spec == Init /\ [][Next]_vars

\* ------------------------------------------------- the session's behaviours
\* The ec_delegate parameters a host may put in the page's URL.
RECURSIVE FieldSeqs(_)
FieldSeqs(n) ==
    IF n = 0 THEN {<<>>}
    ELSE FieldSeqs(n - 1) \cup
         {Append(q, f) : q \in {x \in FieldSeqs(n - 1) : Len(x) = n - 1},
                         f \in DelegateFields}

SessionInit ==
    /\ StoreInit
    /\ session \in {create_embedded_checkout_session(fields) :
                       fields \in FieldSeqs(MaxDelegate)}
    /\ ret = HandlerCall("init", "", "")
    /\ page = ClosedPage

\* A handler call: the session becomes r.s and the call is recorded; a
\* session whose history is full is left alone.
HistoryHasRoom(r) == Len(r.s.message_history) <= MaxHistory

AcceptDelegation ==
    \E d \in {EP_DELEGATE_PAYMENT_CREDENTIAL, "unsupported.x"} :
        LET r == accept_delegation(session, d)
        IN /\ HistoryHasRoom(r)
           /\ session' = r.s
           /\ ret' = HandlerCall("accept_delegation", d, r.out)
           /\ UNCHANGED <<storeVars, page>>

ParseMessage ==
    \E raw \in {"garbage", "array", "notrpc", "result"} :
        LET r == parse_message(session, raw)
        IN /\ HistoryHasRoom(r)
           /\ session' = r.s
           /\ ret' = HandlerCall("parse_message", raw, r.out)
           /\ UNCHANGED <<storeVars, page>>

CreateReadyRequest ==
    LET r == create_ready_request(session)
    IN /\ HistoryHasRoom(r)
       /\ session' = r.s
       /\ ret' = HandlerCall("create_ready_request", "", r.out)
       /\ UNCHANGED <<storeVars, page>>

HandleReadyResponse ==
    \E response \in {"result", "error"} :
        LET r == handle_ready_response(session, response)
        IN /\ HistoryHasRoom(r)
           /\ session' = r.s
           /\ ret' = HandlerCall("handle_ready_response", response, r.out)
           /\ UNCHANGED <<storeVars, page>>

CreateStartNotification ==
    LET r == create_start_notification(session)
    IN /\ HistoryHasRoom(r)
       /\ session' = r.s
       /\ ret' = HandlerCall("create_start_notification", "", r.out)
       /\ UNCHANGED <<storeVars, page>>

CreateCompleteNotification ==
    LET r == create_complete_notification(session)
    IN /\ HistoryHasRoom(r)
       /\ session' = r.s
       /\ ret' = HandlerCall("create_complete_notification", "", r.out)
       /\ UNCHANGED <<storeVars, page>>

CreateStateChangeNotification ==
    \E change_type \in {"buyer", "shipping"} :
        LET r == create_state_change_notification(session, change_type)
        IN /\ HistoryHasRoom(r)
           /\ session' = r.s
           /\ ret' = HandlerCall("create_state_change_notification", change_type, r.out)
           /\ UNCHANGED <<storeVars, page>>

CreatePaymentCredentialRequest ==
    LET r == create_payment_credential_request(session)
    IN /\ HistoryHasRoom(r)
       /\ session' = r.s
       /\ ret' = HandlerCall("create_payment_credential_request", "", r.out)
       /\ UNCHANGED <<storeVars, page>>

CreateAddressChangeRequest ==
    LET r == create_address_change_request(session)
    IN /\ HistoryHasRoom(r)
       /\ session' = r.s
       /\ ret' = HandlerCall("create_address_change_request", "", r.out)
       /\ UNCHANGED <<storeVars, page>>

SessionNext ==
    \/ AcceptDelegation
    \/ ParseMessage
    \/ CreateReadyRequest
    \/ HandleReadyResponse
    \/ CreateStartNotification
    \/ CreateCompleteNotification
    \/ CreateStateChangeNotification
    \/ CreatePaymentCredentialRequest
    \/ CreateAddressChangeRequest

SessionSpec == SessionInit /\ [][SessionNext]_vars

\* ---------------------------------------------------- the page's behaviours
\* The store as the tool-call binding left it when the page is opened: one
\* checkout, created with or without buyer, address and instrument, and
\* possibly completed already.
PageStores ==
    LET EmptyStore == [checkouts |-> [i \in {} |-> NoBody], orders |-> 0]
        CreatedStores ==
            {create_checkout(EmptyStore, <<LineItem("a", 1)>>, b, f, 1, pay).S :
                b \in {"none", "contact"}, f \in FulfillmentArgs,
                pay \in PaymentArgs}
    IN CreatedStores \cup
       {complete_checkout(S, 1, "k1", "inst").S : S \in CreatedStores}

PageInit ==
    /\ store \in PageStores
    /\ inflight = [d \in Routes \X CheckoutIds |-> 0]
    /\ last = Call("init", "", NoId, NoKey, NoResp)
    /\ doneKey = [i \in CheckoutIds |-> NoKey]
    /\ session = create_embedded_checkout_session(<<>>)
    /\ ret = HandlerCall("init", "", "")
    /\ page = ClosedPage

\* What the host may post to the page.
HostMessages ==
    {[id |-> id, result |-> m[1], error |-> m[2]] :
        id \in {NoMsgId} \cup {generateId(n) : n \in 1..MaxRequests},
        m \in {<<"plain", 0>>, <<"upgrade", 0>>, <<"none", 0>>,
               <<"none", USER_CANCELLED>>, <<"none", DELEGATION_FAILED>>}}

PageFits(p) ==
    /\ Len(p.sent) <= MaxSent
    /\ p.ids <= MaxRequests
    /\ p.fetches.update + p.fetches.complete <= MaxFetches

\* GET /embedded-checkout/{id}: the route answers, the session is made and
\* the page's script runs init().
OpenPage ==
    \E id \in CheckoutIds \cup {UnknownId}, versionOk \in BOOLEAN,
       fields \in {<<>>, <<EP_DELEGATE_PAYMENT_CREDENTIAL>>,
                   <<EP_DELEGATE_PAYMENT_CREDENTIAL, "unsupported.x">>,
                   <<"", EP_DELEGATE_FULFILLMENT_ADDRESS>>} :
        LET r == get_embedded_checkout(store, id, versionOk)
        IN /\ store' = r.S
           /\ ret' = HandlerCall("get_embedded_checkout", fields, r.resp.code)
           /\ IF r.resp.ok
              THEN /\ session' = create_embedded_checkout_session(fields)
                   /\ page' = init(NewPage(page_delegations(fields),
                                           r.resp.checkout))
              ELSE UNCHANGED <<session, page>>
           /\ UNCHANGED <<inflight, last, doneKey>>

\* A click on "Update Information".
ClickUpdate ==
    LET p == [page EXCEPT !.fetches.update = @ + 1]
    IN /\ page.open /\ ~(page.checkout.status = "completed")
       /\ PageFits(p)
       /\ page' = p
       /\ ret' = HandlerCall("updateBuyerInfo", "", "")
       /\ UNCHANGED <<storeVars, session>>

\* The update route serves the POST and the page handles the response.
UpdateReturned ==
    \E b \in {"nocontact", "contact"} :
        LET r == update_embedded_checkout(store, 1, b)
            p == fetchReturned(page, "update", r.resp)
        IN /\ page.open /\ page.fetches.update > 0
           /\ PageFits(p)
           /\ store' = r.S
           /\ page' = p
           /\ ret' = HandlerCall("update_embedded_checkout", b, r.resp.code)
           /\ UNCHANGED <<inflight, last, doneKey, session>>

\* A click on "Complete Order" (enabled for a ready checkout only).
ClickComplete ==
    LET p == completeCheckout(page)
    IN /\ page.open /\ page.checkout.status = "ready_for_complete"
       /\ PageFits(p)
       /\ page' = p
       /\ ret' = HandlerCall("completeCheckout", "", "")
       /\ UNCHANGED <<storeVars, session>>

\* The complete route serves the POST and the page handles the response.
CompleteReturned ==
    LET r == complete_embedded_checkout(store, 1, generateId(0))
        p == fetchReturned(page, "complete", r.resp)
    IN /\ page.open /\ page.fetches.complete > 0
       /\ PageFits(p)
       /\ store' = r.S
       /\ page' = p
       /\ ret' = HandlerCall("complete_embedded_checkout", "", r.resp.code)
       /\ UNCHANGED <<inflight, last, doneKey, session>>

\* The host posts a message to the page.
HostMessage ==
    \E message \in HostMessages :
        LET r == handleMessage(page, message)
        IN /\ page.open
           /\ PageFits(r.p)
           /\ page' = r.p
           /\ ret' = HandlerCall("handleMessage", message.id, r.out)
           /\ UNCHANGED <<storeVars, session>>

\* Five minutes after a delegated request was posted, it is still pending.
CredentialTimeout ==
    \E q \in page.pendingRequests :
        LET r == credentialTimeout(page, q.id)
        IN /\ page.open
           /\ q.method = "ec.payment.credential_request"
           /\ page' = r.p
           /\ ret' = HandlerCall("credentialTimeout", q.id, r.out)
           /\ UNCHANGED <<storeVars, session>>

PageNext ==
    \/ OpenPage
    \/ ClickUpdate
    \/ UpdateReturned
    \/ ClickComplete
    \/ CompleteReturned
    \/ HostMessage
    \/ CredentialTimeout

PageSpec == PageInit /\ [][PageNext]_vars

\* ------------------------------------------------ the extensions' functions
\* The checkout bodies a response is signed for: two key orders, with and
\* without an ap2 field left by an earlier response.
Ap2Checkouts ==
    {<<<<"id", "c1">>, <<"status", "incomplete">>>>,
     <<<<"status", "incomplete">>, <<"id", "c1">>>>,
     <<<<"id", "c1">>, <<"status", "ready_for_complete">>>>,
     <<<<"ap2", "stale">>, <<"id", "c1">>, <<"status", "incomplete">>>>,
     <<<<"id", "c1">>, <<"ap2", "stale">>, <<"status", "incomplete">>>>}

ExtensionsInit ==
    /\ StoreInit
    /\ session = create_embedded_checkout_session(<<>>)
    /\ ret = HandlerCall("init", "", "")
    /\ page = ClosedPage

\* A code of a checkout's submitted codes list, at the place path names,
\* is applied.
ApplyDiscountCode ==
    \E code \in SubmittedCodes, subtotal \in {0, 500, 1500},
       path \in {"$.discounts.codes[0]", "$.discounts.codes[1]"} :
        /\ ret' = HandlerCall("apply_discount_code",
                              [code |-> code, subtotal |-> subtotal,
                               path |-> path],
                              apply_discount_code(code, SAMPLE_DISCOUNTS))
        /\ UNCHANGED <<storeVars, session, page>>

\* The amount of the discount that was just applied, for its checkout.
CalculateDiscountAmount ==
    /\ ret.op = "apply_discount_code"
    /\ ret.out.applied /= <<>>
    /\ ret' = HandlerCall("calculate_discount_amount",
                          [discount |-> ret.out.applied[1],
                           subtotal |-> ret.arg.subtotal],
                          calculate_discount_amount(ret.out.applied[1],
                                                    ret.arg.subtotal))
    /\ UNCHANGED <<storeVars, session, page>>

\* A buyer's consent is updated: the first update meets no existing consent,
\* a later one the consent the merge before it returned.
MergeConsent ==
    \E update \in BuyerConsent :
        LET existing == IF ret.op = "merge_consent" THEN <<ret.out>> ELSE <<>>
        IN /\ ret' = HandlerCall("merge_consent",
                                 [existing |-> existing, update |-> update],
                                 merge_consent(existing, update))
           /\ UNCHANGED <<storeVars, session, page>>

\* The ap2 objects a completion request may carry: without a mandate, or
\* with one of two or three JWT sections, issued for some checkout body.
Ap2Requests ==
    {[checkout_mandate |-> <<>>]} \cup
    {[checkout_mandate |-> <<[jwt_sections |-> n, header_decodes |-> h,
                              issued_for |-> c]>>] :
        n \in {2, 3}, h \in BOOLEAN, c \in Ap2Checkouts}

VerifyCompleteRequest ==
    \E ap2_request \in Ap2Requests, expected_checkout \in Ap2Checkouts :
        /\ ret' = HandlerCall("verify_complete_request",
                              [ap2_request |-> ap2_request,
                               expected_checkout |-> expected_checkout],
                              verify_complete_request(ap2_request,
                                                      expected_checkout))
        /\ UNCHANGED <<storeVars, session, page>>

\* A checkout response gets its ap2 field, from the mock signer (no private
\* key) or from one holding an EC private key.
AddMerchantAuthorization ==
    \E signer \in {[kid |-> "merchant_key_1", use_mock |-> m] : m \in BOOLEAN},
       checkout \in Ap2Checkouts, k \in 1..MaxNonce :
        /\ ret' = HandlerCall("add_merchant_authorization",
                              [signer |-> signer, checkout |-> checkout],
                              add_merchant_authorization(signer, checkout, k))
        /\ UNCHANGED <<storeVars, session, page>>

\* The same session signs the checkout it returned once more.
AddMerchantAuthorizationAgain ==
    \E k \in 1..MaxNonce :
        /\ ret.op = "add_merchant_authorization"
        /\ ret' = HandlerCall("add_merchant_authorization",
                              [signer |-> ret.arg.signer, checkout |-> ret.out],
                              add_merchant_authorization(ret.arg.signer,
                                                         ret.out, k))
        /\ UNCHANGED <<storeVars, session, page>>

ExtensionsNext ==
    \/ ApplyDiscountCode
    \/ CalculateDiscountAmount
    \/ MergeConsent
    \/ VerifyCompleteRequest
    \/ AddMerchantAuthorization
    \/ AddMerchantAuthorizationAgain

ExtensionsSpec == ExtensionsInit /\ [][ExtensionsNext]_vars

\* ------------------------------------------------------------------ claims
Created == DOMAIN store.checkouts
Ck(id) == store.checkouts[id]

\* The step is a call of the named operation returning its response.
UpdateReturns == McpUpdate \/ EmbeddedUpdate
CompleteReturns == McpComplete \/ EmbeddedComplete \/ HostComplete

\* C1: for every checkout, in every reachable state, whatever transport drove
\* the operations, the order is present iff the status is completed.
C1_OrderIffCompleted ==
    \A id \in Created : (Ck(id).order /= 0) <=> (Ck(id).status = "completed")

\* C1 witness: a completion has just placed an order.
C1_Witness ==
    /\ last.op = "complete" /\ last.resp.ok
    /\ last.id \in Created
    /\ Ck(last.id).status = "completed" /\ Ck(last.id).order /= 0

\* C2 (as claimed): an update request on a completed or canceled checkout,
\* through the tool-call update_checkout or the embedded update route, fails
\* and changes no field of the checkout.
C2_TerminalUpdateRejected ==
    [][\A id \in Created :
         (last'.op = "update" /\ last'.id = id /\ Ck(id).status \in Terminal
                  /\ UpdateReturns)
           => (~last'.resp.ok /\ store'.checkouts[id] = Ck(id))]_vars

\* C3: a checkout's status only moves between incomplete and
\* ready_for_complete, or from one of those into completed or canceled; no
\* step takes a checkout out of completed or out of canceled.
C3_StatusMoves ==
    [][\A id \in Created :
         \/ store'.checkouts[id].status = Ck(id).status
         \/ /\ Ck(id).status \notin Terminal
            /\ store'.checkouts[id].status \in
                 {"incomplete", "ready_for_complete", "completed", "canceled"}]_vars

\* C3 witness: an operation was addressed to a terminal checkout and the
\* checkout is still in that status.
C3_Witness ==
    /\ last.op = "complete" /\ last.via = "host" /\ ~last.resp.ok
    /\ last.id \in Created
    /\ Ck(last.id).status = "canceled"

\* The errors by which a binding says "already completed" / "canceled": the
\* tool-call code, or the HTTP 400 whose detail is the store's error.
AlreadyCompletedError(r) ==
    /\ ~r.ok
    /\ \/ r.code = "CHECKOUT_ALREADY_COMPLETED"
       \/ r.code = "HTTP_400" /\ r.detail = "AlreadyCompleted"
CheckoutCanceledError(r) ==
    /\ ~r.ok
    /\ \/ r.code = "CHECKOUT_CANCELED"
       \/ r.code = "HTTP_400" /\ r.detail = "AlreadyCanceled"
\* A request-shape error: recoverable on the tool-call binding, the HTTP 400
\* for the missing key on the embedded route.
MissingKeyError(r) ==
    /\ ~r.ok
    /\ \/ r.code = "INVALID_REQUEST" /\ r.sev = "recoverable"
       \/ r.code = "HTTP_400" /\ r.detail = "idempotency_key is required"

\* C4 (as claimed): a completion request that carries the idempotency key
\* which completed the checkout returns the prior result: a success carrying
\* the completed checkout as stored (same order), and no second order.
C4_SameKeyReturnsPriorResult ==
    [][\A id \in Created :
         (last'.op = "complete" /\ last'.id = id
            /\ Ck(id).status = "completed"
            /\ last'.key /= NoKey /\ last'.key = doneKey[id]
            /\ (McpComplete \/ EmbeddedComplete))
           => /\ last'.resp.ok
              /\ last'.resp.checkout = Ck(id)
              /\ store'.orders = store.orders]_vars

\* C5 (as claimed): a completion request whose idempotency key differs from
\* the one that completed the checkout fails with an already-completed error
\* on every completion path that takes a key, and leaves order and status.
C5_OtherKeyAlreadyCompleted ==
    [][\A id \in Created :
         (last'.op = "complete" /\ last'.id = id
            /\ Ck(id).status = "completed"
            /\ last'.key /= NoKey /\ last'.key /= doneKey[id]
            /\ (McpComplete \/ EmbeddedComplete))
           => /\ AlreadyCompletedError(last'.resp)
              /\ store'.checkouts[id].order = Ck(id).order
              /\ store'.checkouts[id].status = "completed"]_vars

\* C6: with completion and cancel requests for one checkout in progress at
\* once, the terminal-status check and the transition are one step: an order
\* record is created only by a step that takes a non-terminal checkout to
\* completed and gives it that order, one order per step, and a checkout in a
\* terminal status keeps its status and its order in every later step.
C6_CompleteIsAtomic ==
    [][/\ store'.orders /= store.orders =>
            /\ store'.orders = store.orders + 1
            /\ \E id \in Created :
                 /\ Ck(id).status \notin Terminal
                 /\ store'.checkouts[id].status = "completed"
                 /\ store'.checkouts[id].order = store'.orders
       /\ \A id \in Created :
            Ck(id).status \in Terminal =>
              /\ store'.checkouts[id].status = Ck(id).status
              /\ store'.checkouts[id].order = Ck(id).order]_vars

\* C6 witness: a completion request was refused on a completed checkout
\* while another completion request for the same checkout is still in
\* progress on the embedded route.
C6_Witness ==
    /\ last.op = "complete" /\ last.via = "embedded" /\ ~last.resp.ok
    /\ last.key /= NoKey
    /\ last.id \in Created
    /\ Ck(last.id).status = "completed" /\ store.orders = 1
    /\ inflight[<<"complete", last.id>>] > 0

\* C7 (as claimed): a completion request on a checkout that is not ready is
\* rejected with an error of severity requires_buyer_input, creates no order
\* and does not complete the checkout, on every completion path.
C7_NotReadyRejected ==
    [][\A id \in Created :
         (last'.op = "complete" /\ last'.id = id
            /\ Ck(id).status \notin Terminal /\ ~IsReady(Ck(id))
            /\ (last'.via = "host" \/ last'.key /= NoKey)
            /\ CompleteReturns)
           => /\ ~last'.resp.ok
              /\ last'.resp.sev = "requires_buyer_input"
              /\ store'.orders = store.orders
              /\ store'.checkouts[id].status /= "completed"]_vars

\* C8 (as claimed): every completion request on a canceled checkout, on any
\* completion path, fails with a checkout-canceled error; the checkout does
\* not become completed and gets no order.
C8_CanceledNeverCompletes ==
    [][\A id \in Created :
         (last'.op = "complete" /\ last'.id = id
            /\ Ck(id).status = "canceled"
            /\ (last'.via = "host" \/ last'.key /= NoKey)
            /\ CompleteReturns)
           => /\ CheckoutCanceledError(last'.resp)
              /\ store'.checkouts[id].status = "canceled"
              /\ store'.checkouts[id].order = 0]_vars

\* C9: cancel_checkout on an existing checkout succeeds, leaving the status
\* canceled, iff the status before the call was not terminal; on a completed
\* or canceled checkout it returns an error and leaves status and order.
C9_CancelOnlyFromNonTerminal ==
    [][\A id \in Created :
         (last'.op = "cancel" /\ last'.id = id /\ McpCancel)
           => IF Ck(id).status \in Terminal
              THEN /\ ~last'.resp.ok
                   /\ store'.checkouts[id].status = Ck(id).status
                   /\ store'.checkouts[id].order = Ck(id).order
              ELSE /\ last'.resp.ok
                   /\ store'.checkouts[id].status = "canceled"]_vars

\* C9 witness: a second cancel_checkout failed on the canceled checkout.
C9_Witness ==
    /\ last.op = "cancel" /\ last.via = "mcp" /\ ~last.resp.ok
    /\ last.resp.code = "CANCEL_NOT_ALLOWED"
    /\ last.id \in Created
    /\ Ck(last.id).status = "canceled"

\* C10 (as claimed): a completion request without an idempotency key is
\* rejected with a request-shape error and leaves the store as it was (no
\* status re-derivation, no order), on every completion path.
C10_MissingKeyRejected ==
    [][(last'.op = "complete" /\ last'.key = NoKey /\ last'.id \in Created
          /\ CompleteReturns)
         => (MissingKeyError(last'.resp) /\ store' = store)]_vars

\* C11 (as claimed): from the same checkout state, the same buyer update
\* applied through update_checkout and through the embedded update route
\* leaves the same checkout status.
C11_SameStatusEitherBinding ==
    \A id \in Created : \A b \in {"nocontact", "contact"} :
        update_checkout(store, id, <<>>, b, "none").S.checkouts[id].status
          = update_embedded_checkout(store, id, b).S.checkouts[id].status

C13_FailedCreateLeavesNothing ==
    [][(McpCreate /\ ~last'.resp.ok) => store' = store]_vars

\* The quantity a line-item list submits for a product (0: not in the list).
RECURSIVE QtyIn(_, _)
QtyIn(lis, p) ==
    IF lis = <<>> THEN 0
    ELSE IF lis[Len(lis)].item = p THEN lis[Len(lis)].qty
    ELSE QtyIn(SubSeq(lis, 1, Len(lis) - 1), p)

\* C14 (as claimed): after a successful update_checkout that supplies a
\* line_items list L, the checkout's line items are exactly the items of L
\* with the submitted quantities.
C14_LineItemsReplaced ==
    \A id \in Created : \A lis \in UpdateLineItems_Args \ {<<>>} :
        LET r == update_checkout(store, id, lis, "none", "none")
        IN r.resp.ok =>
             \A p \in Products : r.S.checkouts[id].items[p] = QtyIn(lis, p)

NotFoundError(r) ==
    /\ ~r.ok
    /\ \/ r.code = "CHECKOUT_NOT_FOUND" /\ r.sev = "recoverable"
       \/ r.code = "HTTP_404"

Requested == Range(session.requested_delegations)
Accepted == Range(session.accepted_delegations)
NoDuplicates(q) == \A i, j \in DOMAIN q : q[i] = q[j] => i = j
ReadySent ==
    \E i \in DOMAIN session.message_history :
        session.message_history[i] = [direction |-> "sent", method |-> "ec.ready"]

\* C17 (as claimed): never is a delegation accepted that was not requested
\* or is not supported, and once is_ready is true the accepted delegations
\* are exactly the requested ones that are supported, without duplicates.
C17_AcceptedIsIntersection ==
    /\ Accepted \subseteq (Requested \cap SUPPORTED_DELEGATIONS)
    /\ NoDuplicates(session.accepted_delegations)
    /\ session.is_ready => Accepted = Requested \cap SUPPORTED_DELEGATIONS

\* The delegation requests of the handler: the call, the message it sends
\* and the delegation it needs.
DelegationRequests ==
    { [op |-> "create_payment_credential_request",
       method |-> "ec.payment.credential_request",
       delegation |-> EP_DELEGATE_PAYMENT_CREDENTIAL],
      [op |-> "create_address_change_request",
       method |-> "ec.fulfillment.address_change_request",
       delegation |-> EP_DELEGATE_FULFILLMENT_ADDRESS] }

\* C18: a delegation request is appended to the session's sent messages only
\* in a step that starts with its delegation accepted, and it is then the
\* message the call returns; a call made while the delegation is not
\* accepted returns None and leaves the message history as it was. No step
\* logs a payment instruments change request.
C18_DelegationGuard ==
    [][/\ \A dr \in DelegationRequests :
            /\ (/\ Len(session'.message_history) > Len(session.message_history)
                /\ session'.message_history[Len(session'.message_history)].method
                     = dr.method)
                 => (dr.delegation \in Accepted /\ ret'.op = dr.op
                       /\ ret'.out = "message")
            /\ (ret'.op = dr.op /\ dr.delegation \notin Accepted)
                 => (ret'.out = "None" /\ session' = session)
       /\ \A i \in DOMAIN session'.message_history :
            session'.message_history[i].method
              /= "ec.payment.instruments_change_request"]_vars

\* C18 witness: a payment credential request was refused locally although
\* the host had asked for that delegation (it is not accepted before the
\* ec.ready request is built), and nothing was logged.
C18_Witness ==
    /\ ret.op = "create_payment_credential_request" /\ ret.out = "None"
    /\ EP_DELEGATE_PAYMENT_CREDENTIAL \in Requested
    /\ session.message_history = <<>>

\* C19 (as claimed): is_ready becomes true only in a step that handles a
\* successful response while an ec.ready request of this session has been
\* sent.
C19_ReadyOnlyByHandshake ==
    [][(session'.is_ready /\ ~session.is_ready)
         => /\ ret'.op = "handle_ready_response"
            /\ ret'.arg = "result"
            /\ ReadySent]_vars

\* C20 (as claimed): is_completed implies is_started and is_started implies
\* is_ready, in every reachable state of a session.
C20_StatesInOrder ==
    /\ session.is_completed => session.is_started
    /\ session.is_started => session.is_ready

\* C21: is_ready, is_started and is_completed are monotonic: no step of the
\* session or its handler takes one of them from true back to false.
C21_FlagsMonotonic ==
    [][/\ session.is_ready => session'.is_ready
       /\ session.is_started => session'.is_started
       /\ session.is_completed => session'.is_completed]_vars

\* C21 witness: a ready, started session on which the handshake request was
\* built once more is still ready and started.
C21_Witness ==
    /\ ret.op = "create_ready_request"
    /\ session.is_ready /\ session.is_started
    /\ session.message_history[1].method = "ec.start"

\* What a sent ec.start is logged as.
StartEntry == [direction |-> "sent", method |-> "ec.start"]

\* C22 (as claimed): a second create_start_notification leaves the session
\* exactly as the first one left it.
C22_SecondStartSameState ==
    LET first == create_start_notification(session).s
    IN create_start_notification(first).s = first

\* C22 (amended): a second create_start_notification leaves the flags and
\* the delegations as the first one left them, and adds one more sent
\* ec.start entry to the message history.
C22_SecondStartSameFlags ==
    LET first == create_start_notification(session).s
    IN create_start_notification(first).s
         = [first EXCEPT !.message_history = Append(@, StartEntry)]

\* C22 witness: the start notification was created a second time, for a
\* session that holds accepted delegations.
C22_Witness ==
    /\ ret.op = "create_start_notification"
    /\ session.message_history = <<StartEntry, StartEntry>>
    /\ session.is_started
    /\ session.accepted_delegations /= <<>>

\* C23 (as claimed): an ec.complete notification is produced only by a step
\* that takes a started, not yet completed session to completed; a completed
\* session produces no further ec.complete.
C23_CompleteOnce ==
    [][(/\ Len(session'.message_history) > Len(session.message_history)
        /\ session'.message_history[Len(session'.message_history)].method
             = "ec.complete")
         => (session.is_started /\ ~session.is_completed)]_vars

\* C24 (as claimed): a state-change notification is produced only while the
\* session is started and not yet completed.
C24_ChangeOnlyWhileStarted ==
    [][(/\ Len(session'.message_history) > Len(session.message_history)
        /\ session'.message_history[Len(session'.message_history)].method
             \in {"ec." \o t \o ".change" : t \in ChangeTypes})
         => (session.is_started /\ ~session.is_completed)]_vars

\* C25: when a pending delegated request of the page times out, it is
\* abandoned and reported as a user-cancelled failure; no completion request
\* is posted, the checkout is unchanged on the page and in the store, and
\* nothing is sent to the host again.
C25_TimeoutStopsCompletion ==
    [][ret'.op = "credentialTimeout"
         => /\ Pending(page', ret'.arg) = {}
            /\ Pending(page, ret'.arg) /= {}
            /\ ret'.out = "User cancelled payment"
            /\ page'.fetches = page.fetches
            /\ page'.sent = page.sent
            /\ page'.checkout = page.checkout
            /\ store' = store]_vars

\* C25 witness: the delegated request of a ready checkout timed out; it was
\* posted once and no completion request is under way.
C25_Witness ==
    /\ ret.op = "credentialTimeout"
    /\ store.checkouts[1].status = "ready_for_complete"
    /\ page.fetches.complete = 0
    /\ page.pendingRequests = {[id |-> generateId(1), method |-> "ec.ready"]}
    /\ Cardinality({i \in DOMAIN page.sent :
                      page.sent[i].method = "ec.payment.credential_request"}) = 1

\* C26 (as claimed): once a page is open, the delegation list handed to it
\* and the session's requested_delegations hold supported delegations only.
C26_UnsupportedDroppedEverywhere ==
    page.open =>
        /\ Range(page.delegations) \subseteq SUPPORTED_DELEGATIONS
        /\ Range(session.requested_delegations) \subseteq SUPPORTED_DELEGATIONS

\* C26 (amended): once a page is open, the delegation list handed to it
\* holds the supported entries of the request only, while the session's
\* requested_delegations keeps every non-empty entry of the request.
C26_UnsupportedDroppedForPage ==
    page.open =>
        /\ Range(page.delegations) \subseteq SUPPORTED_DELEGATIONS
        /\ page.delegations
             = SelectSeq(session.requested_delegations,
                         LAMBDA d : d \in SUPPORTED_DELEGATIONS)
        /\ (ret.op = "get_embedded_checkout" /\ ret.out = "HTTP_200")
             => session.requested_delegations
                  = SelectSeq(ret.arg, LAMBDA d : d /= "")

\* C26 witness: a page was opened with an unsupported entry in ec_delegate
\* and the request was served.
C26_Witness ==
    /\ page.open
    /\ ret.op = "get_embedded_checkout" /\ ret.out = "HTTP_200"
    /\ "unsupported.x" \in Range(ret.arg)
    /\ page.delegations = <<EP_DELEGATE_PAYMENT_CREDENTIAL>>

\* C27 (as claimed): the applied discount of a valid code carries
\* amount = min(code.amount, subtotal) for the subtotal of its checkout.
C27_AmountClampedToSubtotal ==
    (ret.op = "apply_discount_code" /\ ret.out.applied /= <<>>)
        => LET amount == SAMPLE_DISCOUNTS[upper(ret.arg.code)].amount
           IN /\ ret.out.applied[1].amount <= ret.arg.subtotal
              /\ ret.out.applied[1].amount \in {amount, ret.arg.subtotal}

\* C28: apply_discount_code returns exactly one of an applied discount and
\* a message: discount_code_invalid for a code that is in the table in no
\* spelling, discount_code_expired for an expired one, the applied discount
\* for any other known code.
C28_AppliedOrMessage ==
    ret.op = "apply_discount_code" =>
        LET out == ret.out
            known == {c \in DOMAIN SAMPLE_DISCOUNTS : c = upper(ret.arg.code)}
        IN /\ (out.applied = <<>>) /= (out.message = <<>>)
           /\ known = {} =>
                out.message = <<DiscountMessage(DISCOUNT_CODE_INVALID)>>
           /\ \A c \in known :
                IF SAMPLE_DISCOUNTS[c].expired
                THEN out.message = <<DiscountMessage(DISCOUNT_CODE_EXPIRED)>>
                ELSE out.applied /= <<>> /\ out.applied[1].code = ret.arg.code

\* C28 witness: a code submitted in lower case was applied.
C28_Witness ==
    /\ ret.op = "apply_discount_code"
    /\ ret.arg.code = "save10"
    /\ ret.out.applied /= <<>> /\ ret.out.message = <<>>

\* C29: merge_consent overwrites flag by flag: the result carries the
\* update's value where the update sets the flag and the existing value
\* elsewhere; a flag set by neither side stays unset.
C29_FieldLevelOverwrite ==
    ret.op = "merge_consent" =>
        \A key \in ConsentKeys :
            LET old == IF ret.arg.existing = <<>> THEN "unset"
                       ELSE ret.arg.existing[1][key]
                new == ret.arg.update[key]
            IN /\ new /= "unset" => ret.out[key] = new
               /\ new = "unset" => ret.out[key] = old

\* C29 witness: existing {analytics: true, marketing: false} merged with
\* update {marketing: true}.
C29_Witness ==
    /\ ret.op = "merge_consent"
    /\ ret.arg.existing /= <<>>
    /\ ret.arg.existing[1] = [key \in ConsentKeys |->
                                 CASE key = "analytics" -> "true"
                                   [] key = "marketing" -> "false"
                                   [] OTHER -> "unset"]
    /\ ret.arg.update = [key \in ConsentKeys |->
                            IF key = "marketing" THEN "true" ELSE "unset"]
    /\ ret.out = [key \in ConsentKeys |->
                     CASE key = "analytics" -> "true"
                       [] key = "marketing" -> "true"
                       [] OTHER -> "unset"]

\* C30 (as claimed): add_merchant_authorization applied by the same session
\* to the checkout it returned gives the same checkout again: the second
\* merchant_authorization is identical to the first.
C30_SigningTwiceSameAuthorization ==
    [][(/\ ret.op = "add_merchant_authorization"
        /\ ret'.op = "add_merchant_authorization"
        /\ ret'.arg.signer = ret.arg.signer
        /\ ret'.arg.checkout = ret.out)
         => ret'.out = ret.out]_vars

\* C38 (as claimed): the message history has a limit: logging one more
\* message never takes it beyond the longest history explored.
C38_HistoryBounded ==
    \A direction \in {"sent", "received"} :
        Len(log_message(session, direction, "").message_history) <= MaxHistory

\* C39 (as claimed): parse_message answers a raw message that is not JSON,
\* or whose jsonrpc field is not "2.0", with a ValueError and leaves the
\* session as it was; a message it accepts is appended to the history once,
\* as received.
C39_RejectsWithValueError ==
    [][ret'.op = "parse_message"
         => IF ret'.arg \in {"garbage", "array", "notrpc"}
            THEN ret'.out = "ValueError" /\ session' = session
            ELSE session' = [session EXCEPT !.message_history =
                               Append(@, [direction |-> "received",
                                          method |-> ""])]]_vars

\* C32 (as claimed): a delegated request of the page is settled once: a
\* response that arrives for a request whose slot is gone (it timed out, or
\* was answered before) has no effect on the page, and neither has its
\* timer when it fires after the response.
C32_SettledOnce ==
    [][LET CredentialRequestIds ==
               {page.sent[i].id : i \in {j \in DOMAIN page.sent :
                   page.sent[j].method = "ec.payment.credential_request"}}
       IN /\ (/\ ret'.op = "handleMessage"
              /\ ret'.arg \in CredentialRequestIds
              /\ Pending(page, ret'.arg) = {})
               => page' = page
          /\ \A id \in CredentialRequestIds :
               Pending(page, id) = {}
                   => credentialTimeout(page, id).p = page]_vars

\* C33 (as claimed): the page posts ec.start at most once per embedding,
\* and only in the step that handles the response to a pending ec.ready
\* request of its own.
C33_StartOnceAfterReady ==
    [][LET StartsSent(p) ==
               Cardinality({i \in DOMAIN p.sent : p.sent[i].method = "ec.start"})
       IN StartsSent(page') > StartsSent(page)
            => /\ StartsSent(page) = 0
               /\ ret'.op = "handleMessage"
               /\ \E q \in Pending(page, ret'.arg) :
                      q.method = "ec.ready"]_vars

\* C34 (as claimed): with payment.credential delegated, a rejection of the
\* pending credential request, whatever its error code, posts no completion
\* request.
C34_RejectionPostsNothing ==
    \A q \in page.pendingRequests :
        q.method = "ec.payment.credential_request" =>
            \A code \in {USER_CANCELLED, DELEGATION_FAILED} :
                handleMessage(page, [id |-> q.id, result |-> "none",
                                     error |-> code]).p.fetches
                    = page.fetches

\* C35 (as claimed): an update_checkout or complete_checkout call of the
\* tool-call binding that returns an error response leaves the checkout it
\* names exactly as it was before the call.
C35_ErrorLeavesCheckout ==
    [][(/\ last'.op \in {"update", "complete"}
        /\ last'.via = "mcp"
        /\ ~last'.resp.ok
        /\ last'.id \in Created
        /\ (McpUpdate \/ McpComplete))
         => store'.checkouts[last'.id] = Ck(last'.id)]_vars

\* C31 (as claimed): with AP2 negotiated, a completion request whose ap2
\* object carries no mandate, or one that fails verification, is rejected
\* with mandate_required or mandate_invalid_signature; the checkout is not
\* completed and no order is created.
C31_MandateRequiredToComplete ==
    \A id \in Created, ap2_request \in Ap2Requests :
        LET v == verify_complete_request(ap2_request, Ck(id))
            r == complete_checkout(store, id, "k1", "inst")
        IN ~v.valid => /\ ~r.resp.ok
                       /\ r.resp.code = v.code
                       /\ r.S = store

\* C36 (as claimed): a mandate is accepted only for the checkout it was
\* issued for: when verification succeeds, the expected checkout is, ap2
\* aside, the checkout of the mandate.
C36_MandateBoundToCheckout ==
    (ret.op = "verify_complete_request" /\ ret.out.valid)
        => jcs_canonicalize(remove_ap2_field(
               ret.arg.ap2_request.checkout_mandate[1].issued_for))
             = jcs_canonicalize(remove_ap2_field(ret.arg.expected_checkout))

\* C37 (as claimed): the message for a rejected code carries the path of
\* that code's own place in the submitted codes list.
C37_PathPointsAtCode ==
    (ret.op = "apply_discount_code" /\ ret.out.message /= <<>>)
        => ret.out.message[1].path = ret.arg.path

====
